---- MODULE Spec2Model ----
(***************************************************************************)
(* Bag rules (src/main.rs): the rule-line parser, the rule set builder     *)
(* to_bags, the two containment graph builders, the ancestor-closure query *)
(* find_potential_containers and the weighted-descent query                *)
(* find_bag_count.                                                         *)
(*                                                                         *)
(* A string is a sequence of characters, each character a one-character    *)
(* string; "U+0663" stands for the single character ARABIC-INDIC DIGIT     *)
(* THREE, which the regex class \d matches and u64 parsing rejects.        *)
(***************************************************************************)
EXTENDS Integers, Sequences, FiniteSets, TLC

VARIABLES
    lines,               \* to_bags: the line results still to be consumed, as given
    bags,                \* Vec<Bag>: to_bags' result so far / the builders' input
    pos,                 \* index of the next element of the running `for` loop
    status,              \* where the running function is: running, returned, panic
    contained_by_graph,  \* HashMap<String, HashSet<String>>
    contains_graph,      \* HashMap<&str, HashSet<&Content>>
    color,               \* the color a query is asked about
    containers,          \* find_potential_containers: the result set
    stack,               \* the call stack of the recursive query
    calls,               \* number of calls of the recursive function so far
    total                \* find_bag_count: the value returned

vars == <<lines, bags, pos, status, contained_by_graph, contains_graph,
          color, containers, stack, calls, total>>

----------------------------------------------------------------------------
(* Option / Result values *)

None == [tag |-> "None"]

Some(v) == [tag |-> "Some", val |-> v]

Ok(v) == [tag |-> "Ok", val |-> v]

Err(e) == [tag |-> "Err", err |-> e]

Panic(msg) == [tag |-> "Panic", msg |-> msg]

SetMax(S) == CHOOSE x \in S : \A y \in S : y <= x

SetMin(S) == CHOOSE x \in S : \A y \in S : x <= y

----------------------------------------------------------------------------
(* Character classes of the regex crate *)

Letters ==
    {"a", "b", "c", "d", "e", "f", "g", "h", "i", "j", "k", "l", "m",
     "n", "o", "p", "q", "r", "s", "t", "u", "v", "w", "x", "y", "z"}

AsciiDigits == {"0", "1", "2", "3", "4", "5", "6", "7", "8", "9"}

\* Decimal digits outside ASCII (Unicode class Nd).
UnicodeDigits == {"U+0663"}

\* \s
IsSpace(c) == c \in {" ", "\t"}

\* \d: Unicode-aware, any decimal digit
IsDigit(c) == c \in AsciiDigits \cup UnicodeDigits

\* \w: letters, digits, underscore
IsWord(c) == c \in Letters \cup AsciiDigits \cup UnicodeDigits \cup {"_"}

\* s has the literal lit at index i
HasAt(s, i, lit) ==
    /\ i >= 1
    /\ i + Len(lit) - 1 <= Len(s)
    /\ \A k \in 1..Len(lit) : s[i + k - 1] = lit[k]

\* The strings (\w+\s?)+ matches in full: they start with a word character,
\* hold only word characters and whitespace, and no two whitespace
\* characters follow each other.
ColorPattern(s) ==
    /\ Len(s) > 0
    /\ IsWord(s[1])
    /\ \A i \in 1..Len(s) : IsWord(s[i]) \/ IsSpace(s[i])
    /\ \A i \in 1..(Len(s) - 1) : ~(IsSpace(s[i]) /\ IsSpace(s[i + 1]))

ContainLiteral == <<" ", "b", "a", "g", "s", " ", "c", "o", "n", "t", "a", "i", "n", " ">>

BagLiteral == <<"b", "a", "g">>

\* ^(?P<color>(\w+\s?)+) bags contain (?P<contents>.+)$
\* The color group is greedy: of the places where it can end it takes the last.
RULE_REGEX(rule) ==
    LET ends == {p \in 1..Len(rule) :
                    /\ ColorPattern(SubSeq(rule, 1, p))
                    /\ HasAt(rule, p + 1, ContainLiteral)
                    /\ p + Len(ContainLiteral) < Len(rule)}
    IN  IF ends = {} THEN None
        ELSE LET p == SetMax(ends)
             IN  Some([color |-> SubSeq(rule, 1, p),
                       contents |-> SubSeq(rule, p + Len(ContainLiteral) + 1, Len(rule))])

\* ^\s?(?P<count>\d+)\s(?P<color>(\w+\s?)+)\sbags?\.?
\* Anchored at the start only: what follows "bag" is not looked at.
CONTENT_REGEX(rule) ==
    LET s0 == IF Len(rule) >= 1 /\ IsSpace(rule[1]) THEN 2 ELSE 1
        dEnds == {e \in s0..Len(rule) : \A i \in s0..e : IsDigit(rule[i])}
    IN  IF dEnds = {} THEN None
        ELSE LET e == SetMax(dEnds)
                 cs == e + 2
                 cEnds == {q \in cs..Len(rule) :
                              /\ ColorPattern(SubSeq(rule, cs, q))
                              /\ q + 1 <= Len(rule)
                              /\ IsSpace(rule[q + 1])
                              /\ HasAt(rule, q + 2, BagLiteral)}
             IN  IF e + 1 > Len(rule) \/ ~IsSpace(rule[e + 1]) \/ cEnds = {}
                 THEN None
                 ELSE Some([count |-> SubSeq(rule, s0, e),
                            color |-> SubSeq(rule, cs, SetMax(cEnds))])

----------------------------------------------------------------------------
(* str::parse::<u64> *)

U64MaxDigits == <<"1", "8", "4", "4", "6", "7", "4", "4", "0", "7", "3", "7", "0", "9", "5", "5", "1", "6", "1", "5">>

DigitVal(c) ==
    CASE c = "0" -> 0 [] c = "1" -> 1 [] c = "2" -> 2 [] c = "3" -> 3
      [] c = "4" -> 4 [] c = "5" -> 5 [] c = "6" -> 6 [] c = "7" -> 7
      [] c = "8" -> 8 [] c = "9" -> 9

RECURSIVE StripZeros(_)
StripZeros(ds) ==
    IF Len(ds) > 1 /\ ds[1] = "0" THEN StripZeros(Tail(ds)) ELSE ds

\* a > b for two digit strings of the same length
DigitsGreater(a, b) ==
    \E i \in 1..Len(a) :
        /\ DigitVal(a[i]) > DigitVal(b[i])
        /\ \A j \in 1..(i - 1) : a[j] = b[j]

RECURSIVE DecimalValue(_)
DecimalValue(ds) ==
    IF ds = <<>> THEN 0
    ELSE 10 * DecimalValue(SubSeq(ds, 1, Len(ds) - 1)) + DigitVal(ds[Len(ds)])

\* Ok(n) for a non-empty string of ASCII digits whose value fits 64 bits,
\* Err otherwise.
ParseU64(ds) ==
    IF ds = <<>> THEN Err("Empty")
    ELSE IF \E i \in 1..Len(ds) : ds[i] \notin AsciiDigits THEN Err("InvalidDigit")
    ELSE LET n == StripZeros(ds)
         IN  IF \/ Len(n) > Len(U64MaxDigits)
                \/ Len(n) = Len(U64MaxDigits) /\ DigitsGreater(n, U64MaxDigits)
             THEN Err("PosOverflow")
             ELSE Ok(DecimalValue(n))

----------------------------------------------------------------------------
(* Content::new_from_rule, Bag::new_from_rule *)

\* Content::new_from_rule had it taken every piece for a content clause:
\* a piece that does not match panics.
Content_new_from_rule_strict(rule) ==
    LET caps == CONTENT_REGEX(rule)
    IN  IF caps.tag = "None" THEN Panic("invalid contents")
        ELSE LET n == ParseU64(caps.val.count)
             IN  IF n.tag = "Err" THEN Panic("invalid contents")
                 ELSE Some([count |-> n.val, color |-> caps.val.color])

\* Content::new_from_rule had it raised a count of 0 to 1.
Content_new_from_rule_min1(rule) ==
    LET caps == CONTENT_REGEX(rule)
    IN  IF caps.tag = "None" THEN None
        ELSE LET n == ParseU64(caps.val.count)
             IN  IF n.tag = "Err" THEN Panic("invalid contents")
                 ELSE Some([count |-> IF n.val = 0 THEN 1 ELSE n.val,
                            color |-> caps.val.color])

\* None when the piece does not match, Some(Content) when it does, a panic
\* when the matched count does not parse.
Content_new_from_rule(rule) ==
    LET caps == CONTENT_REGEX(rule)
    IN  IF caps.tag = "None" THEN None
        ELSE LET n == ParseU64(caps.val.count)
             IN  IF n.tag = "Err" THEN Panic("invalid contents")
                 ELSE Some([count |-> n.val, color |-> caps.val.color])

\* str::split(','): the pieces between the commas, empty pieces included
RECURSIVE Split(_, _)
Split(s, sep) ==
    LET at == {i \in 1..Len(s) : s[i] = sep}
    IN  IF at = {} THEN <<s>>
        ELSE LET i == SetMin(at)
             IN  <<SubSeq(s, 1, i - 1)>> \o Split(SubSeq(s, i + 1, Len(s)), sep)

\* The fold of Bag::new_from_rule over the pieces, left to right.
RECURSIVE FoldContents(_, _)
FoldContents(pieces, all) ==
    IF pieces = <<>> THEN Ok(all)
    ELSE LET r == Content_new_from_rule(Head(pieces))
         IN  IF r.tag = "Panic" THEN r
             ELSE IF r.tag = "Some" THEN FoldContents(Tail(pieces), Append(all, r.val))
             ELSE FoldContents(Tail(pieces), all)

Bag_new_from_rule(rule) ==
    LET caps == RULE_REGEX(rule)
    IN  IF caps.tag = "None" THEN Panic("invalid rule")
        ELSE LET r == FoldContents(Split(caps.val.contents, ","), <<>>)
             IN  IF r.tag = "Panic" THEN r
                 ELSE Ok([color |-> caps.val.color, contents |-> r.val])

----------------------------------------------------------------------------
(* The inputs of to_bags *)

\* Longest sequence of line results handed to to_bags.
MaxLines == 2

TxtRed == <<"r", "e", "d">>

TxtDimRed == <<"d", "i", "m", " ", "r", "e", "d">>

TxtBag == <<"b", "a", "g">>

TxtBags == <<"b", "a", "g", "s">>

TokTooBig == <<"1", "8", "4", "4", "6", "7", "4", "4", "0", "7", "3", "7", "0", "9", "5", "5", "1", "6", "1", "6">>

\* Count tokens: numbers, zero, leading zeros, a word, one past u64::MAX,
\* a digit outside ASCII.
SampleCounts ==
    {<<"1">>, <<"2">>, <<"0">>, <<"0", "0">>, <<"0", "7">>, <<"x">>,
     TokTooBig, <<"U+0663">>}

Piece(tok, col, bag) == tok \o <<" ">> \o col \o <<" ">> \o bag

PcNoOther == <<"n", "o", " ", "o", "t", "h", "e", "r", " ", "b", "a", "g", "s">>

PcBagBags == <<"1", " ", "r", "e", "d", " ", "b", "a", "g", " ", "b", "a", "g", "s">>

PcTwoSpaces == <<"1", " ", " ", "r", "e", "d", " ", "b", "a", "g", "s">>

SamplePieces ==
    {Piece(t, TxtRed, TxtBags) : t \in SampleCounts}
        \cup {PcNoOther, PcBagBags, PcTwoSpaces, <<>>, Piece(<<"2">>, TxtDimRed, TxtBag)}

SampleClauses ==
    {p \o <<".">> : p \in SamplePieces}
        \cup {p1 \o <<",", " ">> \o p2 \o <<".">> :
                p1 \in {Piece(t, TxtRed, TxtBag) : t \in {<<"1">>, <<"x">>, TokTooBig}},
                p2 \in {Piece(<<"2">>, TxtDimRed, TxtBags), Piece(<<"0">>, TxtRed, TxtBags)}}

LnBroken == <<"b", "r", "o", "k", "e", "n", " ", "l", "i", "n", "e", " ", "w", "i", "t", "h", " ", "n", "o", " ", "c", "o", "n", "t", "a", "i", "n", " ", "c", "l", "a", "u", "s", "e">>

LnNoContents == <<"r", "e", "d", " ", "b", "a", "g", "s", " ", "c", "o", "n", "t", "a", "i", "n", " ">>

LnLeadingSpace == <<" ", "r", "e", "d", " ", "b", "a", "g", "s", " ", "c", "o", "n", "t", "a", "i", "n", " ", "1", " ", "r", "e", "d", " ", "b", "a", "g", ".">>

LnTwice == <<"r", "e", "d", " ", "b", "a", "g", "s", " ", "c", "o", "n", "t", "a", "i", "n", " ", "2", " ", "r", "e", "d", " ", "b", "a", "g", "s", " ", "c", "o", "n", "t", "a", "i", "n", " ", "1", " ", "r", "e", "d", " ", "b", "a", "g", ".">>

SampleLines ==
    {TxtDimRed \o ContainLiteral \o c : c \in SampleClauses}
        \cup {LnBroken, LnNoContents, LnLeadingSpace, LnTwice}

\* io::Result<String>: a line, or a read failure
LineResults == {Ok(l) : l \in SampleLines} \cup {Err("io")}

LineSeqs == UNION {[1..n -> LineResults] : n \in 0..MaxLines}

\* Bag::new_from_rule on every sample line, evaluated once.
ParsedLines == [l \in SampleLines |-> Bag_new_from_rule(l)]

----------------------------------------------------------------------------
(* to_bags *)

Idle ==
    /\ contained_by_graph = <<>>
    /\ contains_graph = <<>>
    /\ color = ""
    /\ containers = {}
    /\ stack = <<>>
    /\ calls = 0
    /\ total = 0

InitParse ==
    /\ lines \in LineSeqs
    /\ bags = <<>>
    /\ pos = 1
    /\ status = "running"
    /\ Idle

\* to_bags had it stopped reading at the first line that failed to read.
ToBagsStopAtFailedLine ==
    /\ status = "running"
    /\ pos <= Len(lines)
    /\ lines[pos].tag = "Err"
    /\ status' = "returned"
    /\ UNCHANGED <<lines, bags, pos, contained_by_graph, contains_graph,
                   color, containers, stack, calls, total>>

\* `if let Ok(line) = line_res` fails: the line is dropped
ToBagsSkip ==
    /\ status = "running"
    /\ pos <= Len(lines)
    /\ lines[pos].tag = "Err"
    /\ pos' = pos + 1
    /\ UNCHANGED <<lines, bags, status, contained_by_graph, contains_graph,
                   color, containers, stack, calls, total>>

\* bags.push(Bag::new_from_rule(&line))
ToBagsPush ==
    /\ status = "running"
    /\ pos <= Len(lines)
    /\ lines[pos].tag = "Ok"
    /\ LET b == ParsedLines[lines[pos].val]
       IN  /\ b.tag = "Ok"
           /\ bags' = Append(bags, b.val)
    /\ pos' = pos + 1
    /\ UNCHANGED <<lines, status, contained_by_graph, contains_graph,
                   color, containers, stack, calls, total>>

\* Bag::new_from_rule panics: to_bags unwinds, its Vec is dropped
ToBagsPanic ==
    /\ status = "running"
    /\ pos <= Len(lines)
    /\ lines[pos].tag = "Ok"
    /\ LET b == ParsedLines[lines[pos].val]
       IN  /\ b.tag = "Panic"
           /\ status' = b.msg
    /\ UNCHANGED <<lines, bags, pos, contained_by_graph, contains_graph,
                   color, containers, stack, calls, total>>

\* the iterator is exhausted: `bags` is returned
ToBagsReturn ==
    /\ status = "running"
    /\ pos > Len(lines)
    /\ status' = "returned"
    /\ UNCHANGED <<lines, bags, pos, contained_by_graph, contains_graph,
                   color, containers, stack, calls, total>>

NextParse == ToBagsSkip \/ ToBagsPush \/ ToBagsPanic \/ ToBagsReturn

Spec == InitParse /\ [][NextParse]_vars

----------------------------------------------------------------------------
(* What the parser's claims are stated with *)

IsOk(r) == r.tag = "Ok"

\* The successfully read lines among those to_bags has consumed, in order.
ReadSoFar ==
    LET read == SelectSeq(SubSeq(lines, 1, pos - 1), IsOk)
    IN  [k \in 1..Len(read) |-> read[k].val]

\* Whether a sample line matches the outer rule grammar.
MatchesRule == [l \in SampleLines |-> RULE_REGEX(l).tag = "Some"]

\* The comma-separated pieces of a sample line's contents clause.
LinePieces ==
    [l \in SampleLines |->
        LET caps == RULE_REGEX(l)
        IN  IF caps.tag = "None" THEN <<>> ELSE Split(caps.val.contents, ",")]

TokenStart(piece) == IF Len(piece) >= 1 /\ IsSpace(piece[1]) THEN 2 ELSE 1

\* The count token of a piece: its first run of non-whitespace characters,
\* after one optional leading whitespace character.
CountToken(piece) ==
    LET s0 == TokenStart(piece)
        ends == {e \in s0..Len(piece) : \A i \in s0..e : ~IsSpace(piece[i])}
    IN  IF ends = {} THEN <<>> ELSE SubSeq(piece, s0, SetMax(ends))

\* The piece reads "<token> <color> bag...": a token, then a color, then "bag".
HasContentShape(piece) ==
    LET tok == CountToken(piece)
        rest == SubSeq(piece, TokenStart(piece) + Len(tok), Len(piece))
    IN  /\ tok # <<>>
        /\ Len(rest) >= 1
        /\ IsSpace(rest[1])
        /\ \E q \in 2..Len(rest) :
              /\ ColorPattern(SubSeq(rest, 2, q))
              /\ q + 1 <= Len(rest)
              /\ IsSpace(rest[q + 1])
              /\ HasAt(rest, q + 2, BagLiteral)

AllDigits(tok) == tok # <<>> /\ \A i \in 1..Len(tok) : IsDigit(tok[i])

\* The piece has the shape of a content clause and a count token that is
\* not a valid non-negative integer.
InvalidCountPiece(piece) ==
    HasContentShape(piece) /\ ParseU64(CountToken(piece)).tag = "Err"

\* The piece has the shape of a content clause and a valid count.
ValidContentPiece(piece) ==
    HasContentShape(piece) /\ ParseU64(CountToken(piece)).tag = "Ok"

\* "no other bags", with or without the final period
IsNoOtherBags(piece) ==
    LET p == IF Len(piece) >= 1 /\ IsSpace(piece[1]) THEN Tail(piece) ELSE piece
    IN  p = PcNoOther \/ p = PcNoOther \o <<".">>

Panicked == status \in {"invalid rule", "invalid contents"}

----------------------------------------------------------------------------
(* C6 *)

\* C6: to_bags skips every line that failed to read, parses every line that
\* was read, and returns the Bags of the read lines in input order, one per
\* line; a read line that does not match the outer rule grammar aborts the
\* batch, and nothing is returned.
C6_ToBagsSkipsFailedAndAbortsOnGrammar ==
    /\ Len(bags) = Len(ReadSoFar)
    /\ \A k \in 1..Len(bags) : Ok(bags[k]) = ParsedLines[ReadSoFar[k]]
    /\ status = "returned" => pos = Len(lines) + 1
    /\ (\E i \in 1..Len(lines) : IsOk(lines[i]) /\ ~MatchesRule[lines[i].val])
          => status # "returned"
    /\ Panicked =>
          /\ pos <= Len(lines)
          /\ IsOk(lines[pos])
          /\ (status = "invalid rule") = ~MatchesRule[lines[pos].val]

\* to_bags has returned after a failed line followed by a parsed one.
C6_Witness ==
    /\ status = "returned"
    /\ Len(lines) = 2
    /\ ~IsOk(lines[1])
    /\ IsOk(lines[2])
    /\ Len(bags) = 1

----------------------------------------------------------------------------
(* C7 *)

\* C7, as claimed: a piece whose count token is not a valid non-negative
\* integer makes the parse of its line fatal, so no line holding such a piece
\* (other than "no other bags") is ever consumed without a panic.
C7_NonNumericCountIsFatal ==
    \A k \in 1..Len(ReadSoFar) :
        \A j \in 1..Len(LinePieces[ReadSoFar[k]]) :
            LET piece == LinePieces[ReadSoFar[k]][j]
            IN  ~(InvalidCountPiece(piece) /\ ~IsNoOtherBags(piece))

\* C7, amended: the parse of a line is fatal ("invalid contents") only for a
\* piece whose count token is a run of digits that is no valid u64; a piece
\* whose count token is not a run of digits is dropped without error, and
\* the Bag holds one Content per piece with a valid count.
C7_OnlyDigitRunsThatDoNotParseAreFatal ==
    /\ status = "invalid contents" =>
          \E j \in 1..Len(LinePieces[lines[pos].val]) :
              LET piece == LinePieces[lines[pos].val][j]
              IN  /\ InvalidCountPiece(piece)
                  /\ AllDigits(CountToken(piece))
    /\ \A k \in 1..Len(bags) :
          LET pieces == LinePieces[ReadSoFar[k]]
          IN  /\ Len(bags[k].contents) =
                    Cardinality({j \in 1..Len(pieces) : ValidContentPiece(pieces[j])})
              /\ \A j \in 1..Len(pieces) :
                    InvalidCountPiece(pieces[j]) => ~AllDigits(CountToken(pieces[j]))

\* A line with a non-numeric count ("x red bags") was parsed and to_bags
\* returned.
C7_Witness ==
    /\ status = "returned"
    /\ \E k \in 1..Len(ReadSoFar) :
          \E j \in 1..Len(LinePieces[ReadSoFar[k]]) :
              LET piece == LinePieces[ReadSoFar[k]][j]
              IN  /\ InvalidCountPiece(piece)
                  /\ ~AllDigits(CountToken(piece))
                  /\ ~IsNoOtherBags(piece)

----------------------------------------------------------------------------
(* C8 *)

\* The pieces of a line that have a valid count, in order.
ValidPieces(l) == SelectSeq(LinePieces[l], ValidContentPiece)

AllZeros(tok) == \A i \in 1..Len(tok) : tok[i] = "0"

\* C8, as claimed: every Content the parser produces has count >= 1.
C8_CountAtLeastOne ==
    \A k \in 1..Len(bags) :
        \A j \in 1..Len(bags[k].contents) : bags[k].contents[j].count >= 1

\* C8, amended: every Content the parser produces has count >= 0, and its
\* count is 0 exactly when its count token holds no digit but 0.
C8_CountZeroIffTokenAllZeros ==
    \A k \in 1..Len(bags) :
        LET valid == ValidPieces(ReadSoFar[k])
        IN  /\ Len(bags[k].contents) = Len(valid)
            /\ \A j \in 1..Len(bags[k].contents) :
                  /\ bags[k].contents[j].count >= 0
                  /\ (bags[k].contents[j].count = 0) = AllZeros(CountToken(valid[j]))

\* A Content with count 0 is in a Bag that to_bags returned.
C8_Witness ==
    /\ status = "returned"
    /\ \E k \in 1..Len(bags) :
          \E j \in 1..Len(bags[k].contents) : bags[k].contents[j].count = 0

----------------------------------------------------------------------------
(* The inputs of the graph builders and of the queries *)

\* Colors are opaque to the builders and the queries.
Colors == {"shiny gold", "dark olive", "faded blue"}

\* Largest count of a Content.
MaxCount == 2

Counts == 1..MaxCount

Content == [count : Counts, color : Colors]

\* Lengths of a Bag's contents, and of the Bag sequence handed to a builder.
ContentsLens == 0..2

BagsLens == 0..2

Bag == [color : Colors,
        contents : UNION {[1..n -> Content] : n \in ContentsLens}]

BagSeqs == UNION {[1..n -> Bag] : n \in BagsLens}

\* HashMap::new()
EmptyMap == [k \in {} |-> {}]

\* HashMap::insert
Put(m, k, v) == [x \in (DOMAIN m) \cup {k} |-> IF x = k THEN v ELSE m[x]]

----------------------------------------------------------------------------
(* bags_to_contained_by_graph, bags_to_contains_graph *)

\* The inner loop had it given the Bag's own color a key as well.
RECURSIVE ContainedByInnerKeysBag(_, _, _)
ContainedByInnerKeysBag(graph, bag_color, contents) ==
    IF contents = <<>> THEN graph
    ELSE LET g0 == IF bag_color \in DOMAIN graph THEN graph ELSE Put(graph, bag_color, {})
             c == Head(contents).color
             g1 == IF c \in DOMAIN g0 THEN g0 ELSE Put(g0, c, {})
             g2 == Put(g1, c, g1[c] \cup {bag_color})
         IN  ContainedByInnerKeysBag(g2, bag_color, Tail(contents))

\* The inner loop of bags_to_contained_by_graph over one Bag's contents.
RECURSIVE ContainedByInner(_, _, _)
ContainedByInner(graph, bag_color, contents) ==
    IF contents = <<>> THEN graph
    ELSE LET c == Head(contents).color
             g1 == IF c \in DOMAIN graph THEN graph ELSE Put(graph, c, {})
             g2 == Put(g1, c, g1[c] \cup {bag_color})
         IN  ContainedByInner(g2, bag_color, Tail(contents))

\* The inner loop of bags_to_contains_graph: the set of one Bag's contents.
ContentSet(contents) == {contents[i] : i \in 1..Len(contents)}

InitGraphs ==
    /\ lines = <<>>
    /\ bags \in BagSeqs
    /\ pos = 1
    /\ status = "contained_by"
    /\ contained_by_graph = EmptyMap
    /\ contains_graph = EmptyMap
    /\ color = ""
    /\ containers = {}
    /\ stack = <<>>
    /\ calls = 0
    /\ total = 0

\* one turn of `for bag in bags` in bags_to_contained_by_graph
ContainedByStep ==
    /\ status = "contained_by"
    /\ pos <= Len(bags)
    /\ contained_by_graph' =
          ContainedByInner(contained_by_graph, bags[pos].color, bags[pos].contents)
    /\ pos' = pos + 1
    /\ UNCHANGED <<lines, bags, status, contains_graph, color, containers,
                   stack, calls, total>>

\* bags_to_contained_by_graph returns; bags_to_contains_graph starts
ContainedByReturn ==
    /\ status = "contained_by"
    /\ pos > Len(bags)
    /\ status' = "contains"
    /\ pos' = 1
    /\ UNCHANGED <<lines, bags, contained_by_graph, contains_graph, color,
                   containers, stack, calls, total>>

\* bags_to_contains_graph had it merged the Bags of one color.
ContainsStepMerge ==
    /\ status = "contains"
    /\ pos <= Len(bags)
    /\ contains_graph' =
          Put(contains_graph, bags[pos].color,
              ContentSet(bags[pos].contents)
                 \cup (IF bags[pos].color \in DOMAIN contains_graph
                       THEN contains_graph[bags[pos].color] ELSE {}))
    /\ pos' = pos + 1
    /\ UNCHANGED <<lines, bags, status, contained_by_graph, color, containers,
                   stack, calls, total>>

\* one turn of `for bag in bags` in bags_to_contains_graph
ContainsStep ==
    /\ status = "contains"
    /\ pos <= Len(bags)
    /\ contains_graph' =
          Put(contains_graph, bags[pos].color, ContentSet(bags[pos].contents))
    /\ pos' = pos + 1
    /\ UNCHANGED <<lines, bags, status, contained_by_graph, color, containers,
                   stack, calls, total>>

\* bags_to_contains_graph returns
ContainsReturn ==
    /\ status = "contains"
    /\ pos > Len(bags)
    /\ status' = "returned"
    /\ UNCHANGED <<lines, bags, pos, contained_by_graph, contains_graph, color,
                   containers, stack, calls, total>>

NextGraphs == ContainedByStep \/ ContainedByReturn \/ ContainsStep \/ ContainsReturn

SpecGraphs == InitGraphs /\ [][NextGraphs]_vars

----------------------------------------------------------------------------
(* C9 *)

\* The Bags the contained-by builder has gone through.
ContainedByDone ==
    IF status = "contained_by" THEN SubSeq(bags, 1, pos - 1) ELSE bags

\* The Bags of bs that have a Content of color c.
Holders(bs, c) ==
    {i \in 1..Len(bs) : \E j \in 1..Len(bs[i].contents) : bs[i].contents[j].color = c}

\* C9: the contained-by graph's keys are exactly the colors that occur as the
\* color of a Content of some Bag, the value of key c is exactly the set of
\* the colors of the Bags that have a Content of color c, and no value is
\* empty: a color that is no Content's color has no key.
C9_ContainedByGraphIsInverse ==
    LET bs == ContainedByDone
    IN  /\ DOMAIN contained_by_graph = {c \in Colors : Holders(bs, c) # {}}
        /\ \A c \in DOMAIN contained_by_graph :
              /\ contained_by_graph[c] = {bs[i].color : i \in Holders(bs, c)}
              /\ contained_by_graph[c] # {}

\* The builder has returned a graph in which one color has two containers
\* and the color of a Bag has no key.
C9_Witness ==
    /\ status = "returned"
    /\ \E c \in DOMAIN contained_by_graph : Cardinality(contained_by_graph[c]) = 2
    /\ \E i \in 1..Len(bags) : bags[i].color \notin DOMAIN contained_by_graph

----------------------------------------------------------------------------
(* C10 *)

\* The Bags the contains builder has gone through.
ContainsDone ==
    IF status = "contained_by" THEN <<>>
    ELSE IF status = "contains" THEN SubSeq(bags, 1, pos - 1)
    ELSE bags

\* C10: the contains graph's keys are exactly the colors of the Bags, empty
\* Bags included, and the value of color c is the set of the distinct Content
\* values of the last Bag of color c: an earlier Bag of that color is
\* overwritten, and equal entries of one Bag collapse.
C10_ContainsGraphLastBagWins ==
    LET bs == ContainsDone
    IN  /\ DOMAIN contains_graph = {bs[i].color : i \in 1..Len(bs)}
        /\ \A c \in DOMAIN contains_graph :
              LET last == SetMax({i \in 1..Len(bs) : bs[i].color = c})
              IN  \A x \in Content :
                     x \in contains_graph[c]
                        <=> \E j \in 1..Len(bs[last].contents) : bs[last].contents[j] = x

\* The builder has returned after two Bags of one color, the first with one
\* entry, the second with another entry twice.
C10_Witness ==
    /\ status = "returned"
    /\ Len(bags) = 2
    /\ bags[1].color = bags[2].color
    /\ Len(bags[1].contents) = 1
    /\ Len(bags[2].contents) = 2
    /\ bags[2].contents[1] = bags[2].contents[2]
    /\ bags[1].contents[1] # bags[2].contents[1]
    /\ Cardinality(contains_graph[bags[2].color]) = 1

----------------------------------------------------------------------------
(* find_potential_containers *)

\* The graphs bags_to_contained_by_graph can return over Colors: a key has a
\* non-empty set of containers.
ContainedByGraphs ==
    UNION {[K -> (SUBSET Colors) \ {{}}] : K \in SUBSET Colors}

\* A call of _find_potential_containers(c, graph, containers): `todo` is what
\* its `for color in contained_by` has still to yield, nothing when
\* graph.get(c) is None.
FpcFrame(c) ==
    [color |-> c,
     todo |-> IF c \in DOMAIN contained_by_graph THEN contained_by_graph[c] ELSE {}]

\* find_potential_containers(color, graph): an empty set, and the first call.
InitContainers ==
    /\ lines = <<>>
    /\ bags = <<>>
    /\ pos = 0
    /\ status = "running"
    /\ contained_by_graph \in ContainedByGraphs
    /\ contains_graph = EmptyMap
    /\ color \in Colors
    /\ containers = {}
    /\ stack = <<FpcFrame(color)>>
    /\ calls = 1
    /\ total = 0

\* The loop had it inserted a new color without recursing into it.
FpcVisitNoRecursion ==
    /\ status = "running"
    /\ stack # <<>>
    /\ \E c \in stack[Len(stack)].todo :
          /\ c \notin containers
          /\ containers' = containers \cup {c}
          /\ stack' = [stack EXCEPT ![Len(stack)].todo = @ \ {c}]
    /\ UNCHANGED <<lines, bags, pos, status, contained_by_graph, contains_graph,
                   color, calls, total>>

\* The loop had it passed over the target color.
FpcVisitSkipTarget ==
    /\ status = "running"
    /\ stack # <<>>
    /\ \E c \in stack[Len(stack)].todo :
          /\ c \notin containers
          /\ IF c = color
             THEN /\ stack' = [stack EXCEPT ![Len(stack)].todo = @ \ {c}]
                  /\ UNCHANGED <<containers, calls>>
             ELSE /\ containers' = containers \cup {c}
                  /\ stack' = Append([stack EXCEPT ![Len(stack)].todo = @ \ {c}],
                                     FpcFrame(c))
                  /\ calls' = calls + 1
    /\ UNCHANGED <<lines, bags, pos, status, contained_by_graph, contains_graph,
                   color, total>>

\* The loop had it recursed into every color it yields, in the result or not.
FpcVisitUnchecked ==
    /\ status = "running"
    /\ stack # <<>>
    /\ \E c \in stack[Len(stack)].todo :
          /\ containers' = containers \cup {c}
          /\ stack' = Append([stack EXCEPT ![Len(stack)].todo = @ \ {c}], FpcFrame(c))
          /\ calls' = calls + 1
    /\ UNCHANGED <<lines, bags, pos, status, contained_by_graph, contains_graph,
                   color, total>>

\* The loop yields a color that is not in `containers`: it is inserted and
\* recursed into. The set is iterated in any order.
FpcVisit ==
    /\ status = "running"
    /\ stack # <<>>
    /\ \E c \in stack[Len(stack)].todo :
          /\ c \notin containers
          /\ containers' = containers \cup {c}
          /\ stack' = Append([stack EXCEPT ![Len(stack)].todo = @ \ {c}], FpcFrame(c))
          /\ calls' = calls + 1
    /\ UNCHANGED <<lines, bags, pos, status, contained_by_graph, contains_graph,
                   color, total>>

\* The loop yields a color that is in `containers` already: nothing is done.
FpcSeen ==
    /\ status = "running"
    /\ stack # <<>>
    /\ \E c \in stack[Len(stack)].todo :
          /\ c \in containers
          /\ stack' = [stack EXCEPT ![Len(stack)].todo = @ \ {c}]
    /\ UNCHANGED <<lines, bags, pos, status, contained_by_graph, contains_graph,
                   color, containers, calls, total>>

\* A recursive call's loop is over: it returns to its caller.
FpcReturn ==
    /\ status = "running"
    /\ Len(stack) > 1
    /\ stack[Len(stack)].todo = {}
    /\ stack' = SubSeq(stack, 1, Len(stack) - 1)
    /\ UNCHANGED <<lines, bags, pos, status, contained_by_graph, contains_graph,
                   color, containers, calls, total>>

\* The first call returns: find_potential_containers returns `containers`.
FpcDone ==
    /\ status = "running"
    /\ Len(stack) = 1
    /\ stack[1].todo = {}
    /\ stack' = <<>>
    /\ status' = "returned"
    /\ UNCHANGED <<lines, bags, pos, contained_by_graph, contains_graph,
                   color, containers, calls, total>>

NextContainers == FpcVisit \/ FpcSeen \/ FpcReturn \/ FpcDone

SpecContainers == InitContainers /\ [][NextContainers]_vars

\* A call that can run does run: the program is sequential.
FairSpecContainers == SpecContainers /\ WF_vars(NextContainers)

----------------------------------------------------------------------------
(* C1 *)

\* The colors that directly contain c.
DirectContainers(c) ==
    IF c \in DOMAIN contained_by_graph THEN contained_by_graph[c] ELSE {}

\* S with everything that contains, through any chain, a color of S.
RECURSIVE ContainersClosure(_)
ContainersClosure(S) ==
    LET next == S \cup UNION {DirectContainers(c) : c \in S}
    IN  IF next = S THEN S ELSE ContainersClosure(next)

\* The colors with a chain of one or more containment edges from c.
Ancestors(c) == ContainersClosure(DirectContainers(c))

\* C1: find_potential_containers returns exactly the colors with a chain of
\* one or more direct-containment edges from the target, in whatever order
\* the sets are iterated, and the empty set when the target has no key.
C1_ReturnsAncestorClosure ==
    status = "returned" =>
        /\ containers = Ancestors(color)
        /\ color \notin DOMAIN contained_by_graph => containers = {}

\* The query has returned a color that contains the target only through
\* another color.
C1_Witness ==
    /\ status = "returned"
    /\ \E c \in containers : c \notin DirectContainers(color) /\ c # color

----------------------------------------------------------------------------
(* C3 *)

\* There is a chain of one or more containment edges from c back to c.
OnCycle(c) ==
    \E n \in 1..Cardinality(Colors) :
        \E p \in [0..n -> Colors] :
            /\ p[0] = c
            /\ p[n] = c
            /\ \A i \in 0..(n - 1) : p[i + 1] \in DirectContainers(p[i])

\* C3, as claimed: the returned set never holds the target color, cycle
\* through the target or not.
C3_TargetNeverInResult ==
    status = "returned" => color \notin containers

\* C3, amended: the target is in no result set unless the graph has a cycle
\* through the target, and then it is in the returned set.
C3_TargetInResultIffOnCycle ==
    /\ color \in containers => OnCycle(color)
    /\ status = "returned" => (color \in containers <=> OnCycle(color))

\* The query has returned for a target on a cycle through another color.
C3_Witness ==
    /\ status = "returned"
    /\ OnCycle(color)
    /\ color \notin DirectContainers(color)
    /\ color \in containers

----------------------------------------------------------------------------
(* C4 *)

\* The colors of the graph: its keys and its containers.
GraphColors ==
    (DOMAIN contained_by_graph)
        \cup UNION {contained_by_graph[c] : c \in DOMAIN contained_by_graph}

\* C4: find_potential_containers terminates on every graph, cyclic or not:
\* a color is recursed into only when it is first added to the result, so
\* there is one call per color of the result and the first one, at most the
\* number of distinct colors plus one.
C4_TerminatesWithinColorsPlusOneCalls ==
    /\ [](calls = Cardinality(containers) + 1)
    /\ [](calls <= Cardinality(GraphColors) + 1)
    /\ <>(status = "returned")

\* The query has returned on a graph with a cycle through the target after
\* a call for every color and the first one.
C4_Witness ==
    /\ status = "returned"
    /\ OnCycle(color)
    /\ calls = Cardinality(Colors) + 1

----------------------------------------------------------------------------
(* find_bag_count *)

\* Sizes of a color's set of contents in the contains graph.
ContentSetSizes == 0..2

\* The graphs bags_to_contains_graph can return over Colors.
ContainsGraphs ==
    UNION {[K -> {S \in SUBSET Content : Cardinality(S) \in ContentSetSizes}] :
            K \in SUBSET Colors}

\* A call of _find_bag_count(c, graph) past its lookup: `todo` is what the
\* iterator over the contents has still to yield, `cur` the content whose
\* sub-total is being computed, `sum` the sum of the products so far.
FbcFrame(c) ==
    [color |-> c, todo |-> contains_graph[c], cur |-> None, sum |-> 0]

\* What a call whose iterator is exhausted returns.
FbcValue(frame) ==
    IF contains_graph[frame.color] # {} THEN frame.sum + 1 ELSE 1

\* The colors of the calls on the stack.
OnStack == {stack[i].color : i \in 1..Len(stack)}

\* find_bag_count(color, graph), about to call _find_bag_count(color, graph).
InitCount ==
    /\ lines = <<>>
    /\ bags = <<>>
    /\ pos = 0
    /\ status = "running"
    /\ contained_by_graph = EmptyMap
    /\ contains_graph \in ContainsGraphs
    /\ color \in Colors
    /\ containers = {}
    /\ stack = <<>>
    /\ calls = 0
    /\ total = 0

\* The first call: graph.get(color) is Some.
FbcEnter ==
    /\ status = "running"
    /\ calls = 0
    /\ color \in DOMAIN contains_graph
    /\ stack' = <<FbcFrame(color)>>
    /\ calls' = 1
    /\ UNCHANGED <<lines, bags, pos, status, contained_by_graph, contains_graph,
                   color, containers, total>>

\* The first call: graph.get(color) is None, unwrap panics.
FbcEnterMissing ==
    /\ status = "running"
    /\ calls = 0
    /\ color \notin DOMAIN contains_graph
    /\ calls' = 1
    /\ status' = "unwrap on None"
    /\ UNCHANGED <<lines, bags, pos, contained_by_graph, contains_graph,
                   color, containers, stack, total>>

\* The iterator yields a content whose color has a key and is on no call of
\* the stack: _find_bag_count is called for it. The set is iterated in any
\* order.
FbcDescend ==
    /\ status = "running"
    /\ stack # <<>>
    /\ \E content \in stack[Len(stack)].todo :
          /\ content.color \in DOMAIN contains_graph
          /\ content.color \notin OnStack
          /\ stack' = Append([stack EXCEPT ![Len(stack)].todo = @ \ {content},
                                           ![Len(stack)].cur = Some(content)],
                             FbcFrame(content.color))
    /\ calls' = calls + 1
    /\ UNCHANGED <<lines, bags, pos, status, contained_by_graph, contains_graph,
                   color, containers, total>>

\* The lookup had it taken a color without a key for a bag with no contents.
FbcDescendMissingAsEmpty ==
    /\ status = "running"
    /\ stack # <<>>
    /\ \E content \in stack[Len(stack)].todo :
          /\ content.color \notin DOMAIN contains_graph
          /\ stack' = [stack EXCEPT ![Len(stack)].todo = @ \ {content},
                                    ![Len(stack)].sum = @ + content.count]
    /\ calls' = calls + 1
    /\ UNCHANGED <<lines, bags, pos, status, contained_by_graph, contains_graph,
                   color, containers, total>>

\* The iterator yields a content whose color has no key: unwrap panics.
FbcDescendMissing ==
    /\ status = "running"
    /\ stack # <<>>
    /\ \E content \in stack[Len(stack)].todo :
          content.color \notin DOMAIN contains_graph
    /\ calls' = calls + 1
    /\ status' = "unwrap on None"
    /\ UNCHANGED <<lines, bags, pos, contained_by_graph, contains_graph,
                   color, containers, stack, total>>

\* The iterator yields a content whose color is being counted by a call on
\* the stack: the same calls repeat without end, and the stack overflows.
FbcCycle ==
    /\ status = "running"
    /\ stack # <<>>
    /\ \E content \in stack[Len(stack)].todo :
          /\ content.color \in DOMAIN contains_graph
          /\ content.color \in OnStack
    /\ calls' = calls + 1
    /\ status' = "stack overflow"
    /\ UNCHANGED <<lines, bags, pos, contained_by_graph, contains_graph,
                   color, containers, stack, total>>

\* A recursive call returns: its caller adds count * value to its sum.
FbcReturn ==
    /\ status = "running"
    /\ Len(stack) > 1
    /\ stack[Len(stack)].todo = {}
    /\ LET value == FbcValue(stack[Len(stack)])
           caller == stack[Len(stack) - 1]
       IN  stack' = [SubSeq(stack, 1, Len(stack) - 1) EXCEPT
                        ![Len(stack) - 1].sum = caller.sum + caller.cur.val.count * value,
                        ![Len(stack) - 1].cur = None]
    /\ UNCHANGED <<lines, bags, pos, status, contained_by_graph, contains_graph,
                   color, containers, calls, total>>

\* find_bag_count had it counted the outer bag.
FbcDoneWithOuter ==
    /\ status = "running"
    /\ Len(stack) = 1
    /\ stack[1].todo = {}
    /\ total' = FbcValue(stack[1])
    /\ stack' = <<>>
    /\ status' = "returned"
    /\ UNCHANGED <<lines, bags, pos, contained_by_graph, contains_graph,
                   color, containers, calls>>

\* The first call returns: find_bag_count returns its value less one.
FbcDone ==
    /\ status = "running"
    /\ Len(stack) = 1
    /\ stack[1].todo = {}
    /\ total' = FbcValue(stack[1]) - 1
    /\ stack' = <<>>
    /\ status' = "returned"
    /\ UNCHANGED <<lines, bags, pos, contained_by_graph, contains_graph,
                   color, containers, calls>>

NextCount ==
    \/ FbcEnter
    \/ FbcEnterMissing
    \/ FbcDescend
    \/ FbcDescendMissing
    \/ FbcCycle
    \/ FbcReturn
    \/ FbcDone

SpecCount == InitCount /\ [][NextCount]_vars

----------------------------------------------------------------------------
(* What the claims about find_bag_count are stated with *)

\* The colors c directly contains, by the contains graph.
DirectContents(c) ==
    IF c \in DOMAIN contains_graph
    THEN {x.color : x \in contains_graph[c]}
    ELSE {}

RECURSIVE ContentsClosure(_)
ContentsClosure(S) ==
    LET next == S \cup UNION {DirectContents(c) : c \in S}
    IN  IF next = S THEN S ELSE ContentsClosure(next)

\* The target and every color the descent from it can reach.
ReachedColors == ContentsClosure({color})

\* Some reached color contains itself, directly or through others.
ReachesCycle ==
    \E c \in ReachedColors : c \in ContentsClosure(DirectContents(c))

\* Every reached color has a key.
ReachedComplete == ReachedColors \subseteq DOMAIN contains_graph

\* The count the claim gives for a set of direct contents: the sum over its
\* entries (n, c) of n * (1 + the count for the contents of c).
RECURSIVE RequiredBags(_)
RequiredBags(S) ==
    IF S = {} THEN 0
    ELSE LET x == CHOOSE x \in S : TRUE
         IN  x.count * (1 + RequiredBags(contains_graph[x.color]))
                + RequiredBags(S \ {x})

----------------------------------------------------------------------------
(* C2 *)

\* C2: on a graph whose part reached from the target is acyclic and has a
\* key for every color, find_bag_count returns the sum over the target's
\* direct contents (n, c) of n * (1 + find_bag_count(c)), which is 0 when
\* the target has no contents.
C2_CountIsWeightedSumOfContents ==
    /\ (ReachedComplete /\ ~ReachesCycle) => status \in {"running", "returned"}
    /\ status = "returned" =>
          /\ total = RequiredBags(contains_graph[color])
          /\ contains_graph[color] = {} => total = 0

\* The query has returned for a target that holds two bags of a color that
\* holds bags itself.
C2_Witness ==
    /\ status = "returned"
    /\ \E x \in contains_graph[color] :
          /\ x.count = 2
          /\ contains_graph[x.color] # {}

----------------------------------------------------------------------------
(* C5 *)

\* C5: when the target or a color reached in the descent has no key, the
\* query aborts and returns no count: no call goes on past the lookup of a
\* color without a key, and the query returns only when every reached color
\* has one.
C5_MissingColorIsFatal ==
    /\ \A i \in 1..Len(stack) : stack[i].color \in DOMAIN contains_graph
    /\ status = "returned" => ReachedComplete
    /\ status = "unwrap on None" => ~ReachedComplete

\* The query has aborted on a color without a key that it reached below the
\* target.
C5_Witness ==
    /\ status = "unwrap on None"
    /\ color \in DOMAIN contains_graph
    /\ Len(stack) >= 2

====
